---------------------------- MODULE Spec2Model ----------------------------
(***************************************************************************)
(* A model of seed's virtual DOM element, src/virtual_dom/node/el.rs:      *)
(* the struct El<Ms>, its builder methods, get_text, the stripping of      *)
(* web_sys nodes, map_msg, Clone and PartialEq.                            *)
(*                                                                         *)
(* One element `el` is built by the builder methods; `pre`, `op` and `ret` *)
(* record the last call: the element it was made on, its name and          *)
(* arguments, and what it returned.                                        *)
(***************************************************************************)
EXTENDS Integers, Sequences, FiniteSets, TLC

\* ---------------------------------------------------------------- bounds
\* Builder calls (add_*, map_msg, the renderer's attach, the hooks' set) made on el.
MaxOps == 3
\* Longest child list an action builds.
MaxChildren == 3

\* ------------------------------------------------------------ value sets
Tags == {"Div"}
NoneWs == "None"                      \* Option<web_sys::Node>::None
SomeWs == "ws"                        \* Some(node) of the real document
NoneNs == "None"                      \* Option<Namespace>::None
SvgNs == "Svg"                        \* Some(Namespace::Svg)
At_Class == "Class"                   \* At::Class
AtSome(v) == [kind |-> "Some", v |-> v]     \* AtValue::Some(String)
AtNone == [kind |-> "None"]                 \* AtValue::None
\* The (key, value) pairs handed to add_attr.
AttrInputs == {<<"Id", AtSome("foo")>>, <<"Class", AtNone>>}
StKeys == {"Color"}
CssValues == {"red"}
ClassNames == {"", "x", "foo", "bar"}
Texts == {"a", "b"}                  \* handed to add_text
NewTexts == {"c"}                    \* handed to replace_text
Mappers == {"F", "G"}

\* A message of type Ms: the value the handler was built with, and the
\* mapping functions it has been passed through, oldest first.
Msg(base) == [base |-> base, via |-> <<>>]
\* f(m) for a mapping function f
Apply(f, m) == [base |-> m.base, via |-> Append(m.via, f)]

\* Listener<Ms>: the trigger and the message its handler produces.
Listener(trigger, base) == [trigger |-> trigger, msg |-> Msg(base)]
Listeners == {Listener("Click", "m1"), Listener("Input", "m1")}

\* LifecycleHooks::new(): no hook stored.
HooksNew == [did_mount |-> FALSE, via |-> <<>>]
\* Hooks with a did_mount callback stored.
HooksSet == [did_mount |-> TRUE, via |-> <<>>]

\* Attrs::empty() and Style::empty(): maps without keys.
AttrsEmpty == [vals |-> <<>>]
StyleEmpty == [vals |-> <<>>]

\* HashMap::insert: insert or overwrite.
Insert(m, k, v) == [x \in (DOMAIN m) \cup {k} |-> IF x = k THEN v ELSE m[x]]

\* ------------------------------------------------------------- the nodes
\* Node::Text(Text), Node::Empty, Node::Element(El)
text_new(text) == [kind |-> "Text", text |-> text, node_ws |-> NoneWs]
new_text(text) == text_new(text)
EmptyNode == [kind |-> "Empty"]
is_text(node) == node.kind = "Text"

\* The mutant of empty: the new element holds a real node.
empty_live(tag) ==
    [kind |-> "Element",
     tag |-> tag,
     attrs |-> AttrsEmpty,
     style |-> StyleEmpty,
     listeners |-> <<>>,
     children |-> <<>>,
     node_ws |-> SomeWs,
     namespace |-> NoneNs,
     hooks |-> HooksNew]

\* El::empty
empty(tag) ==
    [kind |-> "Element",
     tag |-> tag,
     attrs |-> AttrsEmpty,
     style |-> StyleEmpty,
     listeners |-> <<>>,
     children |-> <<>>,
     node_ws |-> NoneWs,
     namespace |-> NoneNs,
     hooks |-> HooksNew]

\* El::empty_svg
empty_svg(tag) ==
    LET el0 == empty(tag) IN [el0 EXCEPT !.namespace = SvgNs]

\* The mutant of add_child: the node is put in front.
add_child_front(self, element) ==
    [self EXCEPT !.children = <<element>> \o @]

\* El::add_child
add_child(self, element) ==
    [self EXCEPT !.children = Append(@, element)]

\* El::add_attr
add_attr(self, key, val) ==
    [self EXCEPT !.attrs.vals = Insert(@, key, val)]

\* The mutant of add_class: the separator is added to an empty value too.
add_class_sep_always(self, name) ==
    IF At_Class \in DOMAIN self.attrs.vals
    THEN LET at_value == self.attrs.vals[At_Class] IN
         IF at_value.kind = "Some"
         THEN [self EXCEPT !.attrs.vals[At_Class] = AtSome(at_value.v \o " " \o name)]
         ELSE [self EXCEPT !.attrs.vals[At_Class] = AtSome(name)]
    ELSE [self EXCEPT !.attrs.vals = Insert(@, At_Class, AtSome(name))]

\* El::add_class
add_class(self, name) ==
    IF At_Class \in DOMAIN self.attrs.vals
    THEN LET at_value == self.attrs.vals[At_Class] IN
         IF at_value.kind = "Some"
         THEN LET v1 == IF at_value.v # "" THEN at_value.v \o " " ELSE at_value.v
              IN  [self EXCEPT !.attrs.vals[At_Class] = AtSome(v1 \o name)]
         ELSE [self EXCEPT !.attrs.vals[At_Class] = AtSome(name)]
    ELSE [self EXCEPT !.attrs.vals = Insert(@, At_Class, AtSome(name))]

\* El::add_style
add_style(self, key, val) ==
    [self EXCEPT !.style.vals = Insert(@, key, val)]

\* El::add_listener
add_listener(self, listener) ==
    [self EXCEPT !.listeners = Append(@, listener)]

\* El::add_text
add_text(self, text) ==
    [self EXCEPT !.children = Append(@, text_new(text))]

\* Vec::retain(|node| !node.is_text())
RetainNonText(children) == SelectSeq(children, LAMBDA node : ~is_text(node))

\* The mutant of replace_text: only a leading Text child is removed.
replace_text_first_only(self, text) ==
    LET kept == IF self.children # <<>> /\ is_text(Head(self.children))
                THEN Tail(self.children) ELSE self.children
    IN  [self EXCEPT !.children = Append(kept, new_text(text))]

\* El::replace_text
replace_text(self, text) ==
    [self EXCEPT !.children = Append(RetainNonText(@), new_text(text))]

\* String's FromIterator<String>: the strings joined, nothing between them.
RECURSIVE collect(_)
collect(strs) ==
    IF strs = <<>> THEN "" ELSE Head(strs) \o collect(Tail(strs))

\* The mutant of get_text: the text of child Elements is pulled in too.
RECURSIVE get_text_deep(_)
get_text_deep(self) ==
    collect([i \in 1..Len(self.children) |->
               LET child == self.children[i] IN
               IF child.kind = "Text" THEN child.text
               ELSE IF child.kind = "Element" THEN get_text_deep(child)
               ELSE ""])

\* El::get_text
get_text(self) ==
    LET texts == SelectSeq(self.children, LAMBDA child : child.kind = "Text")
    IN  collect([i \in 1..Len(texts) |-> texts[i].text])

\* ------------------------------------------------ stripping web_sys nodes
RECURSIVE strip_ws_nodes_from_self_and_children(_), node_strip_ws_nodes(_)

\* The mutant of strip_ws_nodes_from_self_and_children: the children are left alone.
strip_self_only(self) ==
    [self EXCEPT !.node_ws = NoneWs]

\* El::strip_ws_nodes_from_self_and_children
strip_ws_nodes_from_self_and_children(self) ==
    [self EXCEPT !.node_ws = NoneWs,
                 !.children = [i \in 1..Len(@) |-> node_strip_ws_nodes(@[i])]]

\* Node::strip_ws_nodes_from_self_and_children
node_strip_ws_nodes(node) ==
    IF node.kind = "Element" THEN strip_ws_nodes_from_self_and_children(node)
    ELSE IF node.kind = "Text" THEN [node EXCEPT !.node_ws = NoneWs]
    ELSE node

\* ------------------------------------------------------------------ Clone
RECURSIVE clone(_), node_clone(_)

\* Listener::clone
listener_clone(l) == [trigger |-> l.trigger, msg |-> l.msg]

\* El::clone
clone(self) ==
    [kind |-> "Element",
     tag |-> self.tag,
     attrs |-> self.attrs,
     style |-> self.style,
     children |-> [i \in 1..Len(self.children) |-> node_clone(self.children[i])],
     node_ws |-> self.node_ws,
     listeners |-> [i \in 1..Len(self.listeners) |-> listener_clone(self.listeners[i])],
     namespace |-> self.namespace,
     hooks |-> HooksNew]

\* Node::clone
node_clone(node) ==
    IF node.kind = "Element" THEN clone(node) ELSE node

\* -------------------------------------------------------------- PartialEq
\* Listener::eq: the triggers are compared, the handlers are not.
listener_eq(a, b) == a.trigger = b.trigger

\* Vec<Listener>::eq: the same length and equal element by element.
listeners_eq(a, b) ==
    /\ Len(a) = Len(b)
    /\ \A i \in 1..Len(a) : listener_eq(a[i], b[i])

\* The mutant of eq: the children are compared too.
eq_with_children(self, other) ==
    /\ self.tag = other.tag
    /\ self.attrs = other.attrs
    /\ self.style = other.style
    /\ listeners_eq(self.listeners, other.listeners)
    /\ self.namespace = other.namespace
    /\ self.children = other.children

\* El::eq
eq(self, other) ==
    /\ self.tag = other.tag
    /\ self.attrs = other.attrs
    /\ self.style = other.style
    /\ listeners_eq(self.listeners, other.listeners)
    /\ self.namespace = other.namespace

\* ---------------------------------------------------------------- map_msg
\* The calls of the mapping function f are counted: each map_msg below gives
\* the mapped value and the number of times f was invoked to make it.
RECURSIVE SumCalls(_)
SumCalls(rs) == IF rs = <<>> THEN 0 ELSE Head(rs).calls + SumCalls(Tail(rs))

\* Listener::map_msg: the message goes through f, the trigger stays.
listener_map_msg(l, f) ==
    [val |-> [trigger |-> l.trigger, msg |-> Apply(f, l.msg)], calls |-> 1]

\* LifecycleHooks::map_msg: a stored callback is wrapped in f, which is not invoked.
hooks_map_msg(h, f) ==
    [val |-> IF h.did_mount THEN [h EXCEPT !.via = Append(@, f)] ELSE h, calls |-> 0]

\* The mutant of map_listeners: only the first listener is mapped.
map_listeners_first_only(listeners, f) ==
    [i \in 1..Len(listeners) |->
        IF i = 1 THEN listener_map_msg(listeners[i], f)
        ELSE [val |-> listeners[i], calls |-> 0]]

\* self.listeners.into_iter().map(|l| l.map_msg(f.clone())).collect()
map_listeners(listeners, f) ==
    [i \in 1..Len(listeners) |-> listener_map_msg(listeners[i], f)]

RECURSIVE map_msg(_, _), node_map_msg(_, _)

\* The mutant of map_children: the children are kept as they are.
map_children_skipped(children, f) ==
    [i \in 1..Len(children) |-> [val |-> children[i], calls |-> 0]]

\* self.children.into_iter().map(|c| c.map_msg(f.clone())).collect()
map_children(children, f) ==
    [i \in 1..Len(children) |-> node_map_msg(children[i], f)]

\* El::map_msg
map_msg(self, f) ==
    LET ls == map_listeners(self.listeners, f)
        cs == map_children(self.children, f)
        hs == hooks_map_msg(self.hooks, f)
    IN  [val |-> [kind |-> "Element",
                  tag |-> self.tag,
                  attrs |-> self.attrs,
                  style |-> self.style,
                  listeners |-> [i \in 1..Len(ls) |-> ls[i].val],
                  children |-> [i \in 1..Len(cs) |-> cs[i].val],
                  node_ws |-> self.node_ws,
                  namespace |-> self.namespace,
                  hooks |-> hs.val],
         calls |-> SumCalls(ls) + SumCalls(cs) + hs.calls]

\* Node::map_msg
node_map_msg(node, f) ==
    IF node.kind = "Element" THEN map_msg(node, f)
    ELSE [val |-> node, calls |-> 0]


\* ------------------------------------------------- the renderer's handles
\* The nodes of a tree, each named by the child indices that lead to it.
RECURSIVE Paths(_)
Paths(node) ==
    IF node.kind = "Element"
    THEN {<<>>} \cup UNION {{<<i>> \o p : p \in Paths(node.children[i])} :
                              i \in 1..Len(node.children)}
    ELSE IF node.kind = "Text" THEN {<<>>} ELSE {}

\* The renderer stores the real node it made for the node at `path`: node_ws = Some(..).
RECURSIVE attach_at(_, _)
attach_at(node, path) ==
    IF path = <<>> THEN [node EXCEPT !.node_ws = SomeWs]
    ELSE [node EXCEPT !.children[Head(path)] = attach_at(@, Tail(path))]

\* The renderer has made a real node for every node of the tree.
RECURSIVE attach_all(_)
attach_all(node) ==
    IF node.kind = "Element"
    THEN [node EXCEPT !.node_ws = SomeWs,
                      !.children = [i \in 1..Len(@) |-> attach_all(@[i])]]
    ELSE IF node.kind = "Text" THEN [node EXCEPT !.node_ws = SomeWs]
    ELSE node

\* Whether a node of the tree holds a real node.
RECURSIVE HasWs(_)
HasWs(node) ==
    IF node.kind = "Element"
    THEN node.node_ws # NoneWs \/ \E i \in 1..Len(node.children) : HasWs(node.children[i])
    ELSE IF node.kind = "Text" THEN node.node_ws # NoneWs
    ELSE FALSE

\* ------------------------------------------------------------ the inputs
\* Nodes handed to add_child, built by the builder methods.
Inner == add_text(add_listener(empty("Span"), Listener("Input", "m1")), "a")
Sub == add_child(empty("Span"), Inner)
SubLive == attach_all(Sub)
NodePool == {EmptyNode, Sub, SubLive}

\* Elements handed to eq as `other`: built ones, and el with one field changed.
Others(self) ==
    {empty("Div"),
     add_style(add_listener(empty("Div"), Listener("Click", "m2")), "Color", "red"),
     [self EXCEPT !.children = <<Inner>>],
     [self EXCEPT !.node_ws = SomeWs],
     [self EXCEPT !.hooks = HooksSet],
     [self EXCEPT !.listeners = [i \in 1..Len(@) |-> Listener(@[i].trigger, "m2")]],
     [self EXCEPT !.listeners = [i \in 1..Len(@) |-> Listener("Input", @[i].msg.base)]],
     [self EXCEPT !.namespace = SvgNs],
     [self EXCEPT !.tag = "Custom"],
     [self EXCEPT !.attrs = AttrsEmpty]}

\* ---------------------------------------------------------------- state
VARIABLES
    el,        \* the element
    pre,       \* the element the last call was made on
    op,        \* the last call: its name and arguments
    ret,       \* what the last call returned
    nops,      \* builder calls made so far
    rendered   \* whether a renderer has stored a real node in el's tree

vars == <<el, pre, op, ret, nops, rendered>>

NoRet == [kind |-> "unit"]

Init ==
    /\ \E tag \in Tags : \E ctor \in {"empty", "empty_svg"} :
          /\ el = IF ctor = "empty" THEN empty(tag) ELSE empty_svg(tag)
          /\ op = [name |-> ctor, tag |-> tag]
    /\ pre = el
    /\ ret = NoRet
    /\ nops = 0
    /\ rendered = FALSE

\* A builder call: el becomes `new`.
Builder(call, new) ==
    /\ nops < MaxOps
    /\ pre' = el
    /\ el' = new
    /\ op' = call
    /\ ret' = NoRet
    /\ nops' = nops + 1

AddChild ==
    \E node \in NodePool :
        /\ Len(el.children) < MaxChildren
        /\ Builder([name |-> "add_child", element |-> node], add_child(el, node))
        /\ rendered' = (rendered \/ HasWs(node))

AddAttr ==
    \E kv \in AttrInputs :
        /\ Builder([name |-> "add_attr", key |-> kv[1], val |-> kv[2]],
                   add_attr(el, kv[1], kv[2]))
        /\ UNCHANGED rendered

AddClass ==
    \E name \in ClassNames :
        /\ Builder([name |-> "add_class", class |-> name], add_class(el, name))
        /\ UNCHANGED rendered

AddStyle ==
    \E key \in StKeys : \E val \in CssValues :
        /\ Builder([name |-> "add_style", key |-> key, val |-> val], add_style(el, key, val))
        /\ UNCHANGED rendered

AddListener ==
    \E listener \in Listeners :
        /\ Builder([name |-> "add_listener", listener |-> listener],
                   add_listener(el, listener))
        /\ UNCHANGED rendered

AddText ==
    \E text \in Texts :
        /\ Len(el.children) < MaxChildren
        /\ Builder([name |-> "add_text", text |-> text], add_text(el, text))
        /\ UNCHANGED rendered

ReplaceText ==
    \E text \in NewTexts :
        /\ pre' = el
        /\ el' = replace_text(el, text)
        /\ op' = [name |-> "replace_text", text |-> text]
        /\ ret' = NoRet
        /\ UNCHANGED <<nops, rendered>>

GetText ==
    /\ pre' = el
    /\ ret' = [kind |-> "String", s |-> get_text(el)]
    /\ op' = [name |-> "get_text"]
    /\ UNCHANGED <<el, nops, rendered>>

Strip ==
    /\ pre' = el
    /\ el' = strip_ws_nodes_from_self_and_children(el)
    /\ op' = [name |-> "strip_ws_nodes_from_self_and_children"]
    /\ ret' = NoRet
    /\ UNCHANGED <<nops, rendered>>

Clone ==
    /\ pre' = el
    /\ ret' = [kind |-> "El", el |-> clone(el)]
    /\ op' = [name |-> "clone"]
    /\ UNCHANGED <<el, nops, rendered>>

Eq ==
    \E other \in Others(el) :
        /\ pre' = el
        /\ ret' = [kind |-> "bool", b |-> eq(el, other)]
        /\ op' = [name |-> "eq", other |-> other]
        /\ UNCHANGED <<el, nops, rendered>>

MapMsg ==
    \E f \in Mappers :
        LET r == map_msg(el, f) IN
        /\ nops < MaxOps
        /\ pre' = el
        /\ el' = r.val
        /\ ret' = [kind |-> "calls", calls |-> r.calls]
        /\ op' = [name |-> "map_msg", f |-> f]
        /\ nops' = nops + 1
        /\ UNCHANGED rendered

\* The renderer stores the real node of one node of the tree.
Attach ==
    \E path \in Paths(el) :
        /\ Builder([name |-> "attach", path |-> path], attach_at(el, path))
        /\ rendered' = TRUE

\* A did_mount hook is stored in the element's public field `hooks`.
SetHooks ==
    /\ Builder([name |-> "set_hooks"], [el EXCEPT !.hooks = HooksSet])
    /\ UNCHANGED rendered

Next ==
    \/ AddChild
    \/ AddAttr
    \/ AddClass
    \/ AddStyle
    \/ AddListener
    \/ AddText
    \/ ReplaceText
    \/ GetText
    \/ Strip
    \/ Clone
    \/ Eq
    \/ MapMsg
    \/ Attach
    \/ SetHooks

Spec == Init /\ [][Next]_vars


\* ================================================================ claims
\* ---- helpers of the claims' statements
\* The non-Text nodes of a child list, in their order.
RECURSIVE NonText(_)
NonText(cs) ==
    IF cs = <<>> THEN <<>>
    ELSE IF Head(cs).kind = "Text" THEN NonText(Tail(cs))
    ELSE <<Head(cs)>> \o NonText(Tail(cs))

\* The text of the Text nodes of a child list, joined from the last one back.
RECURSIVE DirectText(_)
DirectText(cs) ==
    IF cs = <<>> THEN ""
    ELSE LET last == cs[Len(cs)]
             front == SubSeq(cs, 1, Len(cs) - 1)
         IN  DirectText(front) \o (IF last.kind = "Text" THEN last.text ELSE "")

\* The kinds of the nodes of a child list.
Kinds(cs) == [i \in 1..Len(cs) |-> cs[i].kind]

\* The triggers of an element's listeners, in their order.
Triggers(e) == [i \in 1..Len(e.listeners) |-> e.listeners[i].trigger]

\* Two trees that differ at most in the nodes' live handles.
RECURSIVE SameButWs(_, _)
SameButWs(a, b) ==
    /\ a.kind = b.kind
    /\ a.kind = "Text" => a.text = b.text
    /\ a.kind = "Element" =>
          /\ a.tag = b.tag
          /\ a.attrs = b.attrs
          /\ a.style = b.style
          /\ a.listeners = b.listeners
          /\ a.namespace = b.namespace
          /\ a.hooks = b.hooks
          /\ Len(a.children) = Len(b.children)
          /\ \A i \in 1..Len(a.children) : SameButWs(a.children[i], b.children[i])

\* The listeners of a whole tree, the element's own first, then its children's.
RECURSIVE TreeListeners(_)
RECURSIVE Flatten(_)
Flatten(ss) == IF ss = <<>> THEN <<>> ELSE Head(ss) \o Flatten(Tail(ss))
TreeListeners(node) ==
    IF node.kind = "Element"
    THEN node.listeners
         \o Flatten([i \in 1..Len(node.children) |-> TreeListeners(node.children[i])])
    ELSE <<>>

\* b is a remapped by f: the listeners' messages passed through f, all else kept.
RECURSIVE Remapped(_, _, _)
Remapped(a, b, f) ==
    /\ a.kind = b.kind
    /\ a.kind # "Element" => a = b
    /\ a.kind = "Element" =>
          /\ a.tag = b.tag
          /\ a.attrs = b.attrs
          /\ a.style = b.style
          /\ a.namespace = b.namespace
          /\ a.node_ws = b.node_ws
          /\ Len(a.listeners) = Len(b.listeners)
          /\ \A i \in 1..Len(a.listeners) :
                /\ b.listeners[i].trigger = a.listeners[i].trigger
                /\ b.listeners[i].msg = Apply(f, a.listeners[i].msg)
          /\ Len(a.children) = Len(b.children)
          /\ \A i \in 1..Len(a.children) : Remapped(a.children[i], b.children[i], f)

\* C1: clone() of any Element yields a copy with zero listeners and default
\* lifecycle hooks, whose tag, attributes, style, children and namespace equal
\* the original's.  (The claim as stated; clone keeps the listeners.)
C1_CloneOmitsListenersAndHooks ==
    op.name = "clone" =>
        /\ Len(ret.el.listeners) = 0
        /\ ret.el.hooks = HooksNew
        /\ ret.el.tag = pre.tag
        /\ ret.el.attrs = pre.attrs
        /\ ret.el.style = pre.style
        /\ ret.el.children = pre.children
        /\ ret.el.namespace = pre.namespace

\* C2: two Elements compare equal if and only if their tag, attributes, style,
\* sequence of listener triggers and namespace are equal; so two Elements that
\* differ only in children, live handle or lifecycle hooks compare equal.
C2_EqIffComparedFields ==
    op.name = "eq" =>
        LET a == pre
            b == op.other
        IN  /\ ret.b <=> /\ a.tag = b.tag
                         /\ a.attrs = b.attrs
                         /\ a.style = b.style
                         /\ Triggers(a) = Triggers(b)
                         /\ a.namespace = b.namespace
            /\ [b EXCEPT !.children = a.children] = a => ret.b
            /\ [b EXCEPT !.node_ws = a.node_ws] = a => ret.b
            /\ [b EXCEPT !.hooks = a.hooks] = a => ret.b

\* Witness of C2: eq returned true for two Elements with different children.
C2_Witness ==
    /\ op.name = "eq"
    /\ ret.b
    /\ op.other.children # pre.children
    /\ [op.other EXCEPT !.children = pre.children] = pre
    /\ Len(pre.listeners) > 0

\* C3: replace_text(t) removes every Text child wherever it is, keeps the other
\* children in their order and appends one Text child carrying t: afterwards
\* there is exactly one Text child, it is last, and get_text() returns t.
C3_ReplaceText ==
    op.name = "replace_text" =>
        LET cs == el.children
            n == Len(cs)
        IN  /\ n >= 1
            /\ cs[n].kind = "Text"
            /\ cs[n].text = op.text
            /\ \A i \in 1..(n - 1) : cs[i].kind # "Text"
            /\ SubSeq(cs, 1, n - 1) = NonText(pre.children)
            /\ get_text(el) = op.text
            /\ [el EXCEPT !.children = pre.children] = pre
            /\ (Kinds(pre.children) = <<"Text", "Element", "Text">> /\ op.text = "c")
                  => cs = <<pre.children[2], new_text("c")>>

\* Witness of C3: [Text(a), Element, Text(b)] became [Element, Text(c)].
C3_Witness ==
    /\ op.name = "replace_text"
    /\ op.text = "c"
    /\ Len(pre.children) = 3
    /\ pre.children[1] = text_new("a")
    /\ pre.children[2].kind = "Element"
    /\ pre.children[3] = text_new("b")
    /\ el.children = <<pre.children[2], text_new("c")>>

\* C4: add_class(name) makes the class value "v name" when a class attribute
\* with a non-empty string value v exists, and exactly name when the attribute is
\* absent, empty or not a string value; so "foo" then "bar" gives "foo bar" and
\* "" then "x" gives "x".
C4_AddClass ==
    op.name = "add_class" =>
        LET old == pre.attrs.vals
            new == el.attrs.vals
            had == At_Class \in DOMAIN old
        IN  /\ At_Class \in DOMAIN new
            /\ IF had /\ old[At_Class].kind = "Some" /\ old[At_Class].v # ""
               THEN new[At_Class] = AtSome(old[At_Class].v \o " " \o op.class)
               ELSE new[At_Class] = AtSome(op.class)
            /\ (had /\ old[At_Class] = AtSome("foo") /\ op.class = "bar")
                  => new[At_Class] = AtSome("foo bar")
            /\ (had /\ old[At_Class] = AtSome("") /\ op.class = "x")
                  => new[At_Class] = AtSome("x")
            /\ \A k \in DOMAIN old : k # At_Class => (k \in DOMAIN new /\ new[k] = old[k])
            /\ DOMAIN new = DOMAIN old \cup {At_Class}
            /\ [el EXCEPT !.attrs = pre.attrs] = pre

\* Witness of C4: "bar" was added to the class value "foo".
C4_Witness ==
    /\ op.name = "add_class"
    /\ op.class = "bar"
    /\ At_Class \in DOMAIN pre.attrs.vals
    /\ pre.attrs.vals[At_Class] = AtSome("foo")
    /\ el.attrs.vals[At_Class] = AtSome("foo bar")

\* C5: strip_ws_nodes_from_self_and_children leaves no node of the tree with a
\* live handle, changes nothing else, and a second call changes nothing.
C5_StripWsNodes ==
    op.name = "strip_ws_nodes_from_self_and_children" =>
        /\ ~HasWs(el)
        /\ SameButWs(pre, el)
        /\ strip_ws_nodes_from_self_and_children(el) = el

\* Witness of C5: a tree of depth 3 with a handle at every level was stripped.
C5_Witness ==
    /\ op.name = "strip_ws_nodes_from_self_and_children"
    /\ pre.node_ws = SomeWs
    /\ \E i \in 1..Len(pre.children) : pre.children[i] = SubLive
    /\ ~HasWs(el)

\* C6: map_msg(f) keeps tag, attributes, style, namespace and live handle, keeps
\* the listeners' number, order and triggers with each message passed through f,
\* and keeps the children's number and order with each child remapped by f.
C6_MapMsg ==
    op.name = "map_msg" => Remapped(pre, el, op.f)

\* Witness of C6: an element with a listener, a live handle and an Element child
\* that has listeners below it was remapped.
C6_Witness ==
    /\ op.name = "map_msg"
    /\ Len(pre.listeners) > 0
    /\ \E i \in 1..Len(pre.children) :
          /\ pre.children[i].kind = "Element"
          /\ Len(TreeListeners(pre.children[i])) > 0
          /\ pre.children[i].node_ws = SomeWs
    /\ el # pre

C8_GetText ==
    op.name = "get_text" =>
        /\ ret.s = DirectText(pre.children)
        /\ el = pre
        /\ (\A i \in 1..Len(pre.children) : pre.children[i].kind # "Text") => ret.s = ""
        /\ (Len(pre.children) = 3 /\ pre.children[1] = text_new("a")
              /\ pre.children[2].kind = "Element" /\ pre.children[3] = text_new("b"))
              => ret.s = "ab"

\* Witness of C8: [Text(a), Element with a Text below it, Text(b)] gave "ab".
C8_Witness ==
    /\ op.name = "get_text"
    /\ pre.children = <<text_new("a"), Sub, text_new("b")>>
    /\ ret.s = "ab"

\* C9: the mutation operations keep the children's order: add_child and add_text
\* append at the end, replace_text removes the Text children and appends one,
\* and add_attr, add_class, add_style, add_listener and the stripping leave the
\* child sequence as it was.
C9_ChildOrder ==
    /\ op.name = "add_child" => el.children = pre.children \o <<op.element>>
    /\ op.name = "add_text" =>
          /\ Len(el.children) = Len(pre.children) + 1
          /\ SubSeq(el.children, 1, Len(pre.children)) = pre.children
          /\ el.children[Len(el.children)].kind = "Text"
          /\ el.children[Len(el.children)].text = op.text
    /\ op.name = "replace_text" =>
          /\ Len(el.children) = Len(NonText(pre.children)) + 1
          /\ SubSeq(el.children, 1, Len(el.children) - 1) = NonText(pre.children)
    /\ op.name \in {"add_attr", "add_class", "add_style", "add_listener"} =>
          el.children = pre.children
    /\ op.name = "strip_ws_nodes_from_self_and_children" =>
          /\ Len(el.children) = Len(pre.children)
          /\ \A i \in 1..Len(pre.children) : SameButWs(pre.children[i], el.children[i])

\* Witness of C9: an Element was appended after a Text child.
C9_Witness ==
    /\ op.name = "add_child"
    /\ Len(pre.children) = 2
    /\ pre.children[1].kind = "Text"
    /\ op.element.kind = "Element"
    /\ el.children[3] = op.element

\* C10: empty and empty_svg return an Element with no live handle and empty
\* attributes, style, listeners and children, and as long as no renderer has
\* stored a real node in the tree no node of it has a live handle.
C10_NoLiveHandle ==
    /\ op.name \in {"empty", "empty_svg"} =>
          /\ el.node_ws = NoneWs
          /\ el.tag = op.tag
          /\ DOMAIN el.attrs.vals = {}
          /\ DOMAIN el.style.vals = {}
          /\ el.listeners = <<>>
          /\ el.children = <<>>
    /\ ~rendered => ~HasWs(el)

\* Witness of C10: a tree three levels deep built without a renderer.
C10_Witness ==
    /\ ~rendered
    /\ nops = MaxOps
    /\ op.name = "replace_text"
    /\ \E i \in 1..Len(el.children) : el.children[i] = Sub
    /\ Len(el.listeners) > 0


=============================================================================
